---------------------------- MODULE Spec2Model ----------------------------
(***************************************************************************)
(* MultiKeyMap<K, V> (src/src/lib.rs): a HashMap from keys to slot indices *)
(* (key_map) over a dense Vec of values (values).  Several keys may map to *)
(* one slot; removals compact the Vec with swap_remove and repoint the     *)
(* keys of the former last slot.                                           *)
(*                                                                         *)
(* Slot indices are 0-based as in the source; the TLA+ sequence `values`   *)
(* is 1-based, so slot i is values[i + 1].                                 *)
(***************************************************************************)
EXTENDS Integers, Sequences, FiniteSets, TLC

\* The key type K and the value type V, cut down to finite sets.
Keys == {"k1", "k2", "k3"}
Values == {"v1", "v2"}

\* Largest number of slots the model lets the Vec grow to.
MaxLen == 3

\* Option<T>, the unit return value, and an index-out-of-bounds panic.
None == <<"None">>
Some(x) == <<"Some", x>>
Unit == <<"()">>
Panic == <<"panic">>

VARIABLES
    key_map,        \* map1.key_map : HashMap<K, usize>
    values,         \* map1.values  : Vec<V>
    op,             \* the last call made on map1
    ret,            \* what that call returned
    old_key_map,    \* map1.key_map as it was when that call was made
    old_values,     \* map1.values as it was when that call was made
    other_key_map,  \* map2.key_map, a second store (for == and clone)
    other_values,   \* map2.values
    other_op,       \* the last call made on map2
    diverged        \* TRUE once a call that map1 did not receive changed map2

vars == <<key_map, values, op, ret, old_key_map, old_values,
          other_key_map, other_values, other_op, diverged>>

---------------------------------------------------------------------------
(* Helpers on the two collections *)

\* The empty HashMap.
EmptyMap == [k \in {} |-> 0]

\* HashMap::insert(key, index): adds the key or overwrites its index.
MapInsert(km, key, index) ==
    [k \in DOMAIN km \cup {key} |-> IF k = key THEN index ELSE km[k]]

\* HashMap::remove for a set of keys.
MapRemove(km, ks) == [k \in DOMAIN km \ ks |-> km[k]]

\* Vec::get(index): None past the end.
VecGet(vals, index) ==
    IF index < Len(vals) THEN Some(vals[index + 1]) ELSE None

\* Mutant of swap_remove: Vec::remove(index), which shifts the tail left
\* instead of moving the last element.
swap_remove_shift(vals, index) ==
    [i \in 1..(Len(vals) - 1) |->
        IF i >= index + 1 THEN vals[i + 1] ELSE vals[i]]

\* Vec::swap_remove(index): the last element takes the place of the removed
\* one.  Only called with index < Len(vals) (it panics otherwise).
swap_remove(vals, index) ==
    [i \in 1..(Len(vals) - 1) |->
        IF i = index + 1 THEN vals[Len(vals)] ELSE vals[i]]

\* count_references: the number of keys mapping to index.
count_references(km, index) ==
    Cardinality({k \in DOMAIN km : km[k] = index})

\* The keys mapping to index.
KeysAt(km, index) == {k \in DOMAIN km : km[k] = index}

\* Mutant of Repoint: the keys of the former last slot are left as they are.
Repoint_stale(km, last, index) == km

\* The repair after a swap_remove: every key of the former last slot
\* (index last) is rewritten to map to index.
Repoint(km, last, index) ==
    [k \in DOMAIN km |-> IF km[k] = last THEN index ELSE km[k]]

\* The result of a call: the store after it and the value returned.
Result(km, vals, r) == [key_map |-> km, values |-> vals, ret |-> r]

---------------------------------------------------------------------------
(* The operations of MultiKeyMap, as functions of the store *)

\* MultiKeyMap::new
new == Result(EmptyMap, <<>>, Unit)

\* MultiKeyMap::get
get(km, vals, key) ==
    IF key \in DOMAIN km THEN VecGet(vals, km[key]) ELSE None

\* MultiKeyMap::contains_key
contains_key(km, key) == key \in DOMAIN km

\* MultiKeyMap::len
len(vals) == Len(vals)

\* MultiKeyMap::is_empty
is_empty(vals) == Len(vals) = 0

\* MultiKeyMap::keys
keys(km) == DOMAIN km

\* Mutant of get_mut: the reference returned is to a copy of the value, so
\* the assignment through it never reaches the Vec.
get_mut_copy(km, vals, key, value) ==
    IF key \in DOMAIN km /\ km[key] < Len(vals)
    THEN Result(km, vals, Some(vals[km[key] + 1]))
    ELSE Result(km, vals, None)

\* MultiKeyMap::get_mut followed by an assignment of value through the
\* returned reference.
get_mut(km, vals, key, value) ==
    IF key \in DOMAIN km /\ km[key] < Len(vals)
    THEN Result(km, [vals EXCEPT ![km[key] + 1] = value], Some(vals[km[key] + 1]))
    ELSE Result(km, vals, None)

\* Mutant of insert: a key that is present has its value overwritten in
\* place, as HashMap::insert would.
insert_overwrite(km, vals, key, value) ==
    IF key \in DOMAIN km /\ km[key] < Len(vals)
    THEN Result(km, [vals EXCEPT ![km[key] + 1] = value], Unit)
    ELSE Result(MapInsert(km, key, Len(vals)), Append(vals, value), Unit)

\* Mutant of insert: a slot that has no key is reused for the new value
\* instead of growing the Vec.
insert_reuse_orphan(km, vals, key, value) ==
    LET free == {i \in 0..(Len(vals) - 1) : count_references(km, i) = 0}
    IN  IF free # {}
        THEN LET index == CHOOSE i \in free : \A j \in free : i <= j
             IN  Result(MapInsert(km, key, index),
                        [vals EXCEPT ![index + 1] = value], Unit)
        ELSE Result(MapInsert(km, key, Len(vals)), Append(vals, value), Unit)

\* MultiKeyMap::insert
insert(km, vals, key, value) ==
    LET index == Len(vals)
    IN  Result(MapInsert(km, key, index), Append(vals, value), Unit)

\* Mutant of insert_alias: the references are counted before the alias is
\* inserted.
insert_alias_count_first(km, vals, key, alias) ==
    IF key = alias
    THEN Result(km, vals, None)
    ELSE IF key \in DOMAIN km
         THEN LET index == km[key]
              IN  Result(MapInsert(km, alias, index), vals,
                         Some(count_references(km, index)))
         ELSE Result(km, vals, None)

\* Mutant of insert_alias: no check that the alias differs from the key.
insert_alias_no_self_check(km, vals, key, alias) ==
    IF key \in DOMAIN km
    THEN LET index == km[key]
             km1 == MapInsert(km, alias, index)
         IN  Result(km1, vals, Some(count_references(km1, index)))
    ELSE Result(km, vals, None)

\* Mutant of insert_alias: the slot the alias key mapped to before is freed
\* when the alias was its last key.
insert_alias_release(km, vals, key, alias) ==
    IF key = alias
    THEN Result(km, vals, None)
    ELSE IF key \in DOMAIN km
         THEN LET index == km[key]
                  km1 == MapInsert(km, alias, index)
                  count == count_references(km1, index)
              IN  IF /\ alias \in DOMAIN km
                     /\ km[alias] < Len(vals)
                     /\ count_references(km1, km[alias]) = 0
                  THEN LET prior == km[alias]
                           vals1 == swap_remove(vals, prior)
                       IN  Result(IF prior # Len(vals1)
                                  THEN Repoint(km1, Len(vals1), prior)
                                  ELSE km1,
                                  vals1, Some(count))
                  ELSE Result(km1, vals, Some(count))
         ELSE Result(km, vals, None)

\* MultiKeyMap::insert_alias
insert_alias(km, vals, key, alias) ==
    IF key = alias
    THEN Result(km, vals, None)
    ELSE IF key \in DOMAIN km
         THEN LET index == km[key]
                  km1 == MapInsert(km, alias, index)
              IN  Result(km1, vals, Some(count_references(km1, index)))
         ELSE Result(km, vals, None)

\* Mutant of remove_alias: the references are counted before the alias is
\* taken out of the index table.
remove_alias_count_first(km, vals, alias) ==
    IF alias \in DOMAIN km
    THEN LET index == km[alias]
             remaining_references == count_references(km, index)
             km1 == MapRemove(km, {alias})
         IN  Result(km1, vals, Some(remaining_references))
    ELSE Result(km, vals, None)

\* Mutant of remove_alias: the value is swap-removed but the keys of the
\* former last slot are not rewritten.
remove_alias_no_repair(km, vals, alias) ==
    IF alias \in DOMAIN km
    THEN LET index == km[alias]
             km1 == MapRemove(km, {alias})
             remaining_references == count_references(km1, index)
         IN  IF remaining_references = 0
             THEN IF index >= Len(vals)
                  THEN Result(km1, vals, Panic)
                  ELSE Result(km1, swap_remove(vals, index), Some(remaining_references))
             ELSE Result(km1, vals, Some(remaining_references))
    ELSE Result(km, vals, None)

\* MultiKeyMap::remove_alias
remove_alias(km, vals, alias) ==
    IF alias \in DOMAIN km
    THEN LET index == km[alias]
             km1 == MapRemove(km, {alias})
             remaining_references == count_references(km1, index)
         IN  IF remaining_references = 0
             THEN IF index >= Len(vals)
                  THEN Result(km1, vals, Panic)
                  ELSE LET vals1 == swap_remove(vals, index)
                           km2 == IF index # Len(vals1)
                                  THEN Repoint(km1, Len(vals1), index)
                                  ELSE km1
                       IN  Result(km2, vals1, Some(remaining_references))
             ELSE Result(km1, vals, Some(remaining_references))
    ELSE Result(km, vals, None)

\* Mutant of remove: only the key itself is taken out of the index table, not
\* its aliases.
remove_key_only(km, vals, key) ==
    IF key \in DOMAIN km
    THEN LET index == km[key]
         IN  IF index >= Len(vals)
             THEN Result(km, vals, Panic)
             ELSE LET value == vals[index + 1]
                      vals1 == swap_remove(vals, index)
                      km1 == MapRemove(km, {key})
                      km2 == IF index # Len(vals1)
                             THEN Repoint(km1, Len(vals1), index)
                             ELSE km1
                  IN  Result(km2, vals1, Some(value))
    ELSE Result(km, vals, None)

\* Mutant of remove: the keys of the slot are dropped but the value is left
\* in the Vec.
remove_keep_value(km, vals, key) ==
    IF key \in DOMAIN km
    THEN LET index == km[key]
         IN  IF index >= Len(vals)
             THEN Result(km, vals, Panic)
             ELSE Result(MapRemove(km, KeysAt(km, index)), vals,
                         Some(vals[index + 1]))
    ELSE Result(km, vals, None)

\* MultiKeyMap::remove
remove(km, vals, key) ==
    IF key \in DOMAIN km
    THEN LET index == km[key]
         IN  IF index >= Len(vals)
             THEN Result(km, vals, Panic)
             ELSE LET value == vals[index + 1]
                      vals1 == swap_remove(vals, index)
                      keys_to_remove == KeysAt(km, index)
                      km1 == MapRemove(km, keys_to_remove)
                      km2 == IF index # Len(vals1)
                             THEN Repoint(km1, Len(vals1), index)
                             ELSE km1
                  IN  Result(km2, vals1, Some(value))
    ELSE Result(km, vals, None)

\* The orders in which HashMap::iter may visit the keys: the code fixes none.
KeyOrders ==
    {o \in [1..Cardinality(Keys) -> Keys] : \A k \in Keys : \E i \in DOMAIN o : o[i] = k}

\* key_map.iter(): the keys of km in the order of visit.
iter(km, order) == SelectSeq(order, LAMBDA k : k \in DOMAIN km)

\* Mutant of aliases: the key asked about is left out of its own aliases.
aliases_without_self(km, key, order) ==
    IF key \in DOMAIN km
    THEN Some(SelectSeq(iter(km, order), LAMBDA k : km[k] = km[key] /\ k # key))
    ELSE None

\* MultiKeyMap::aliases: the Vec of the keys mapping to the key's index, in
\* the order key_map.iter() visits them.
aliases(km, key, order) ==
    IF key \in DOMAIN km
    THEN LET index == km[key]
         IN  Some(SelectSeq(iter(km, order), LAMBDA k : km[k] = index))
    ELSE None

\* Mutant of are_aliases: the two lookups are compared as Options, so two
\* absent keys compare equal.
are_aliases_option_eq(km, key1, key2) ==
    (IF key1 \in DOMAIN km THEN Some(km[key1]) ELSE None)
        = (IF key2 \in DOMAIN km THEN Some(km[key2]) ELSE None)

\* MultiKeyMap::are_aliases
are_aliases(km, key1, key2) ==
    IF key1 \in DOMAIN km /\ key2 \in DOMAIN km
    THEN km[key1] = km[key2]
    ELSE FALSE

\* Mutant of clear: only the index table is cleared, the values stay.
clear_keys_only(km, vals) ==
    Result(EmptyMap, vals, Unit)

\* MultiKeyMap::clear
clear(km, vals) ==
    Result(EmptyMap, <<>>, Unit)

\* Debug::fmt: one field (keys of the slot) -> value per slot that has keys;
\* self.values[index] panics past the end.
fmt(km, vals) ==
    IF \E k \in DOMAIN km : km[k] >= Len(vals)
    THEN Panic
    ELSE Some({<<KeysAt(km, km[k]), vals[km[k] + 1]>> : k \in DOMAIN km})

\* PartialEq::eq(self, other); indexing either Vec past its end panics.
eq(skm, svals, okm, ovals) ==
    IF Len(svals) # Len(ovals)
    THEN Some(FALSE)
    ELSE IF \E k \in DOMAIN skm :
                k \in DOMAIN okm /\ (skm[k] >= Len(svals) \/ okm[k] >= Len(ovals))
         THEN Panic
         ELSE Some(\A k \in DOMAIN skm :
                      /\ k \in DOMAIN okm
                      /\ svals[skm[k] + 1] = ovals[okm[k] + 1])

\* Mutant of clone: the index table is copied, the values start empty.
clone_keys_only(km, vals) ==
    [key_map |-> km, values |-> <<>>]

\* Clone::clone: a store with copies of key_map and values.
clone(km, vals) ==
    [key_map |-> km, values |-> vals]

---------------------------------------------------------------------------
(* The state machine: calls on map1 *)

NoKey == "-"
NoValue == "-"

Call(name, k, k2, v) == [name |-> name, key |-> k, key2 |-> k2, value |-> v]

Init ==
    /\ key_map = new.key_map
    /\ values = new.values
    /\ op = Call("new", NoKey, NoKey, NoValue)
    /\ ret = Unit
    /\ old_key_map = new.key_map
    /\ old_values = new.values
    /\ other_key_map = new.key_map
    /\ other_values = new.values
    /\ other_op = Call("new", NoKey, NoKey, NoValue)
    /\ diverged = FALSE

\* A mutating call on map1 with result r.
Do(o, r) ==
    /\ op' = o
    /\ old_key_map' = key_map
    /\ old_values' = values
    /\ key_map' = r.key_map
    /\ values' = r.values
    /\ ret' = r.ret

\* A read-only call (&self) on map1 returning r.
Look(o, r) == Do(o, Result(key_map, values, r))

Other == UNCHANGED <<other_key_map, other_values, other_op, diverged>>

Insert ==
    \E k \in Keys, v \in Values :
        /\ Len(values) < MaxLen
        /\ Do(Call("insert", k, NoKey, v), insert(key_map, values, k, v))
        /\ Other

InsertAlias ==
    \E k \in Keys, a \in Keys :
        /\ Do(Call("insert_alias", k, a, NoValue), insert_alias(key_map, values, k, a))
        /\ Other

RemoveAlias ==
    \E k \in Keys :
        /\ Do(Call("remove_alias", k, NoKey, NoValue), remove_alias(key_map, values, k))
        /\ Other

Remove ==
    \E k \in Keys :
        /\ Do(Call("remove", k, NoKey, NoValue), remove(key_map, values, k))
        /\ Other

Clear ==
    /\ Do(Call("clear", NoKey, NoKey, NoValue), clear(key_map, values))
    /\ Other

GetMut ==
    \E k \in Keys, v \in Values :
        /\ Do(Call("get_mut", k, NoKey, v), get_mut(key_map, values, k, v))
        /\ Other

Get ==
    \E k \in Keys :
        /\ Look(Call("get", k, NoKey, NoValue), get(key_map, values, k))
        /\ Other

Aliases ==
    \E k \in Keys, order \in KeyOrders :
        /\ Look(Call("aliases", k, NoKey, NoValue), aliases(key_map, k, order))
        /\ Other

AreAliases ==
    \E k \in Keys, k2 \in Keys :
        /\ Look(Call("are_aliases", k, k2, NoValue), Some(are_aliases(key_map, k, k2)))
        /\ Other

ContainsKey ==
    \E k \in Keys :
        /\ Look(Call("contains_key", k, NoKey, NoValue), Some(contains_key(key_map, k)))
        /\ Other

LenCall ==
    /\ Look(Call("len", NoKey, NoKey, NoValue), Some(len(values)))
    /\ Other

IsEmpty ==
    /\ Look(Call("is_empty", NoKey, NoKey, NoValue), Some(is_empty(values)))
    /\ Other

KeysCall ==
    /\ Look(Call("keys", NoKey, NoKey, NoValue), Some(keys(key_map)))
    /\ Other

Fmt ==
    /\ Look(Call("fmt", NoKey, NoKey, NoValue), fmt(key_map, values))
    /\ Other

Next ==
    \/ Insert
    \/ InsertAlias
    \/ RemoveAlias
    \/ Remove
    \/ Clear
    \/ GetMut
    \/ Get
    \/ Aliases
    \/ AreAliases
    \/ ContainsKey
    \/ LenCall
    \/ IsEmpty
    \/ KeysCall
    \/ Fmt

Spec == Init /\ [][Next]_vars

---------------------------------------------------------------------------
(* Two stores, as in the doctest of PartialEq::eq: map1 and map2 are built *)
(* independently by the same calls, then one call reaches map2 alone, and  *)
(* the two are compared in either order.                                   *)

\* The same call on map1 (result r1) and on map2 (result r2).
BothDo(o, r1, r2) ==
    /\ ~diverged
    /\ Do(o, r1)
    /\ other_key_map' = r2.key_map
    /\ other_values' = r2.values
    /\ other_op' = o
    /\ UNCHANGED diverged

BothInsert ==
    \E k \in Keys, v \in Values :
        /\ Len(values) < MaxLen
        /\ BothDo(Call("insert", k, NoKey, v),
                  insert(key_map, values, k, v),
                  insert(other_key_map, other_values, k, v))

BothInsertAlias ==
    \E k \in Keys, a \in Keys :
        BothDo(Call("insert_alias", k, a, NoValue),
               insert_alias(key_map, values, k, a),
               insert_alias(other_key_map, other_values, k, a))

BothRemoveAlias ==
    \E k \in Keys :
        BothDo(Call("remove_alias", k, NoKey, NoValue),
               remove_alias(key_map, values, k),
               remove_alias(other_key_map, other_values, k))

BothRemove ==
    \E k \in Keys :
        BothDo(Call("remove", k, NoKey, NoValue),
               remove(key_map, values, k),
               remove(other_key_map, other_values, k))

BothClear ==
    BothDo(Call("clear", NoKey, NoKey, NoValue),
           clear(key_map, values),
           clear(other_key_map, other_values))

\* map2.remove_alias(k), map1 untouched.
OtherRemoveAlias ==
    \E k \in Keys :
        LET r == remove_alias(other_key_map, other_values, k)
        IN  /\ ~diverged
            /\ Look(Call("map2.remove_alias", k, NoKey, NoValue), r.ret)
            /\ other_key_map' = r.key_map
            /\ other_values' = r.values
            /\ other_op' = Call("remove_alias", k, NoKey, NoValue)
            /\ diverged' = (r.ret # None)

\* A call o on map2 alone, with result r; map1 is not touched.  name is how
\* the call is recorded in op.
OtherDo(name, o, r) ==
    /\ ~diverged
    /\ Look([o EXCEPT !.name = name], r.ret)
    /\ other_key_map' = r.key_map
    /\ other_values' = r.values
    /\ other_op' = o
    /\ diverged' = (r.key_map # key_map \/ r.values # values)

OtherInsert ==
    \E k \in Keys, v \in Values :
        /\ Len(other_values) < MaxLen
        /\ OtherDo("map2.insert", Call("insert", k, NoKey, v),
                   insert(other_key_map, other_values, k, v))

OtherInsertAlias ==
    \E k \in Keys, a \in Keys :
        OtherDo("map2.insert_alias", Call("insert_alias", k, a, NoValue),
                insert_alias(other_key_map, other_values, k, a))

OtherRemove ==
    \E k \in Keys :
        OtherDo("map2.remove", Call("remove", k, NoKey, NoValue),
                remove(other_key_map, other_values, k))

OtherClear ==
    OtherDo("map2.clear", Call("clear", NoKey, NoKey, NoValue),
            clear(other_key_map, other_values))

OtherGetMut ==
    \E k \in Keys, v \in Values :
        OtherDo("map2.get_mut", Call("get_mut", k, NoKey, v),
                get_mut(other_key_map, other_values, k, v))

\* map2 = map1.clone(): map2 is dropped and replaced by the clone.
CloneCall ==
    LET c == clone(key_map, values)
    IN  /\ Look(Call("clone", NoKey, NoKey, NoValue), Unit)
        /\ other_key_map' = c.key_map
        /\ other_values' = c.values
        /\ other_op' = Call("clone", NoKey, NoKey, NoValue)
        /\ diverged' = FALSE

\* map1.remove(k) and map2.remove_alias(k) on two stores built alike; ret
\* holds both return values.
SplitRemove ==
    \E k \in Keys :
        LET r1 == remove(key_map, values, k)
            r2 == remove_alias(other_key_map, other_values, k)
        IN  /\ ~diverged
            /\ Do(Call("map1.remove, map2.remove_alias", k, NoKey, NoValue),
                  Result(r1.key_map, r1.values, <<r1.ret, r2.ret>>))
            /\ other_key_map' = r2.key_map
            /\ other_values' = r2.values
            /\ other_op' = Call("remove_alias", k, NoKey, NoValue)
            /\ diverged' = (r1.key_map # r2.key_map \/ r1.values # r2.values)

\* map1 == map2
EqCall ==
    /\ Look(Call("map1 == map2", NoKey, NoKey, NoValue),
            eq(key_map, values, other_key_map, other_values))
    /\ Other

\* map2 == map1
EqRevCall ==
    /\ Look(Call("map2 == map1", NoKey, NoKey, NoValue),
            eq(other_key_map, other_values, key_map, values))
    /\ Other

\* Both stores are dropped and built anew.
Restart ==
    /\ diverged
    /\ Do(Call("new", NoKey, NoKey, NoValue), new)
    /\ other_key_map' = new.key_map
    /\ other_values' = new.values
    /\ other_op' = Call("new", NoKey, NoKey, NoValue)
    /\ diverged' = FALSE

NextEq ==
    \/ BothInsert
    \/ BothInsertAlias
    \/ BothRemoveAlias
    \/ BothRemove
    \/ BothClear
    \/ OtherRemoveAlias
    \/ OtherInsert
    \/ OtherInsertAlias
    \/ OtherRemove
    \/ OtherClear
    \/ OtherGetMut
    \/ CloneCall
    \/ SplitRemove
    \/ EqCall
    \/ EqRevCall
    \/ Restart

SpecEq == Init /\ [][NextEq]_vars

---------------------------------------------------------------------------
(* A caller that never reuses a key: insert is called only with a key that *)
(* is absent, insert_alias only with an alias key that is absent.          *)

InsertFresh ==
    \E k \in Keys, v \in Values :
        /\ Len(values) < MaxLen
        /\ ~contains_key(key_map, k)
        /\ Do(Call("insert", k, NoKey, v), insert(key_map, values, k, v))
        /\ Other

InsertAliasFresh ==
    \E k \in Keys, a \in Keys :
        /\ ~contains_key(key_map, a)
        /\ Do(Call("insert_alias", k, a, NoValue), insert_alias(key_map, values, k, a))
        /\ Other

NextFresh ==
    \/ InsertFresh
    \/ InsertAliasFresh
    \/ RemoveAlias
    \/ Remove
    \/ Clear

SpecFresh == Init /\ [][NextFresh]_vars

---------------------------------------------------------------------------
(* Vocabulary of the properties: the store before and after the last call *)

\* The keys sharing the slot of key k in the index table km.
SlotKeys(km, k) == {a \in DOMAIN km : km[a] = km[k]}

\* What get(k) returned before the last call, and returns after it.
OldGet(k) == get(old_key_map, old_values, k)
NewGet(k) == get(key_map, values, k)

\* The last call left map1 as it was.
StoreUnchanged == key_map = old_key_map /\ values = old_values

\* The slot a key had before the last call.
OldIndex(k) == old_key_map[k]

\* The slots of the index table km that hold at least one key.
LiveSlots(km) == {km[k] : k \in DOMAIN km}

---------------------------------------------------------------------------
(* C1..C10 *)

\* C1: after any sequence of insert, insert_alias, remove_alias and remove
\* calls (keys already present included) every slot in [0, len()) has at
\* least one key mapping to it, so len() is the number of distinct slots the
\* index table references.
C1_NoOrphanSlots ==
    /\ \A i \in 0..(Len(values) - 1) :
           Cardinality({k \in DOMAIN key_map : key_map[k] = i}) >= 1
    /\ Len(values) = Cardinality(LiveSlots(key_map))

\* C2: every key of the index table maps to a slot index < len(); so get(k)
\* is Some exactly when contains_key(k), and no call (swap_remove, the Debug
\* rendering) indexes past the end of the value array.
C2_IndexInBounds ==
    /\ \A k \in DOMAIN key_map : key_map[k] < Len(values)
    /\ \A k \in Keys : (NewGet(k) # None) <=> contains_key(key_map, k)
    /\ ret # Panic
    /\ fmt(key_map, values) # Panic

\* C2 witness: a removal freed a slot that was not the last one, and a key of
\* the former last slot now maps to the freed index.
C2_Witness ==
    /\ op.name \in {"remove", "remove_alias"}
    /\ Len(values) = Len(old_values) - 1
    /\ \E k \in DOMAIN key_map :
           /\ old_key_map[k] = Len(old_values) - 1
           /\ key_map[k] # old_key_map[k]

\* C3: remove_alias(k) leaves get(k') unchanged for every k' # k, remove(k)
\* leaves get(k') unchanged for every k' that was not an alias of k, and the
\* alias grouping among the surviving keys is unchanged, whichever slot is
\* freed.
C3_CompactionPreservesLookups ==
    /\ op.name = "remove_alias" =>
           \A k \in Keys \ {op.key} : NewGet(k) = OldGet(k)
    /\ op.name = "remove" =>
           \A k \in Keys :
               (k # op.key /\ ~are_aliases(old_key_map, op.key, k))
                   => NewGet(k) = OldGet(k)
    /\ op.name \in {"remove_alias", "remove"} =>
           \A a \in DOMAIN key_map, b \in DOMAIN key_map :
               (key_map[a] = key_map[b]) <=> (old_key_map[a] = old_key_map[b])

\* C3 witness: remove freed a slot that was not the last of three, the last
\* slot had two keys, and both were moved to the freed index.
C3_Witness ==
    /\ op.name = "remove"
    /\ ret # None
    /\ Len(old_values) = 3
    /\ OldIndex(op.key) < 2
    /\ Cardinality({k \in DOMAIN old_key_map : old_key_map[k] = 2}) = 2
    /\ \A k \in DOMAIN key_map : key_map[k] = OldIndex(op.key)

\* C4: for a present key k, remove_alias(k) makes k absent and returns
\* Some(n), n the number of keys still mapping to k's former slot; if n > 0
\* len() is unchanged and every remaining alias resolves to the same value,
\* and if n = 0 len() decreases by exactly 1.
C4_RemoveAliasCounts ==
    (op.name = "remove_alias" /\ op.key \in DOMAIN old_key_map) =>
        LET rest == SlotKeys(old_key_map, op.key) \ {op.key}
            n == Cardinality(rest)
        IN  /\ op.key \notin DOMAIN key_map
            /\ ret = Some(n)
            /\ n > 0 => /\ Len(values) = Len(old_values)
                        /\ \A a \in rest : NewGet(a) # None /\ NewGet(a) = OldGet(a)
            /\ n = 0 => Len(values) = Len(old_values) - 1

\* C4 witness: remove_alias detached one of three keys of a value in a store
\* of several values; the other two keys remain.
C4_Witness ==
    /\ op.name = "remove_alias"
    /\ ret = Some(2)
    /\ Len(values) = Len(old_values)
    /\ Len(values) >= 2

\* C5: for a present key k, remove(k) returns Some(v), v the value get(k)
\* returned just before, makes k and every alias of k absent, and decreases
\* len() by exactly 1.
C5_RemoveDetachesAll ==
    (op.name = "remove" /\ op.key \in DOMAIN old_key_map) =>
        /\ ret # None
        /\ ret = OldGet(op.key)
        /\ \A a \in SlotKeys(old_key_map, op.key) :
               /\ ~contains_key(key_map, a)
               /\ NewGet(a) = None
        /\ Len(values) = Len(old_values) - 1

\* C5 witness: remove took a value that had three keys.
C5_Witness ==
    /\ op.name = "remove"
    /\ ret # None
    /\ Cardinality(SlotKeys(old_key_map, op.key)) = 3
    /\ Len(old_values) >= 2

\* C6: with existing_key present and new_key # existing_key,
\* insert_alias(existing_key, new_key) returns Some(c), c the number of keys
\* mapping to existing_key's slot after the call (the previous count + 1 when
\* new_key was not already an alias of it); afterwards both keys get the same
\* value, are_aliases holds and len() is unchanged.
C6_InsertAliasShares ==
    (op.name = "insert_alias" /\ op.key \in DOMAIN old_key_map /\ op.key2 # op.key) =>
        /\ ret = Some(Cardinality(SlotKeys(key_map, op.key)))
        /\ ~are_aliases(old_key_map, op.key, op.key2) =>
               ret = Some(Cardinality(SlotKeys(old_key_map, op.key)) + 1)
        /\ NewGet(op.key2) # None
        /\ NewGet(op.key2) = NewGet(op.key)
        /\ are_aliases(key_map, op.key, op.key2)
        /\ Len(values) = Len(old_values)

\* C6 witness: a third key joined a slot that already had two.
C6_Witness ==
    /\ op.name = "insert_alias"
    /\ ret = Some(3)
    /\ op.key2 \notin DOMAIN old_key_map

\* C7: two stores built independently by the same calls compare equal; once
\* remove_alias has removed a key from exactly one of them they compare
\* unequal, whichever is the left operand of ==.
C7_EqAgreesBothWays ==
    op.name \in {"map1 == map2", "map2 == map1"} =>
        /\ ~diverged => ret = Some(TRUE)
        /\ (diverged /\ other_op.name = "remove_alias") => ret = Some(FALSE)

\* C8: a call on an absent key reports absence and leaves the store as it
\* was: get, get_mut, aliases, remove_alias and remove return None,
\* are_aliases returns false if either key is absent, contains_key returns
\* false.
C8_AbsentKeyNoEffect ==
    /\ (/\ op.name \in {"get", "get_mut", "aliases", "remove_alias", "remove"}
        /\ op.key \notin DOMAIN old_key_map)
           => ret = None /\ StoreUnchanged
    /\ (/\ op.name = "are_aliases"
        /\ (op.key \notin DOMAIN old_key_map \/ op.key2 \notin DOMAIN old_key_map))
           => ret = Some(FALSE) /\ StoreUnchanged
    /\ (op.name = "contains_key" /\ op.key \notin DOMAIN old_key_map)
           => ret = Some(FALSE) /\ StoreUnchanged

\* C8 witness: are_aliases was asked about two absent keys of a store that
\* holds another key.
C8_Witness ==
    /\ op.name = "are_aliases"
    /\ op.key \notin DOMAIN old_key_map
    /\ op.key2 \notin DOMAIN old_key_map
    /\ DOMAIN key_map # {}

\* C9: insert_alias(existing_key, new_key) returns None and leaves the store
\* unchanged whenever new_key = existing_key (even if present) or
\* existing_key is absent (even if new_key is present).
C9_InsertAliasRejects ==
    (/\ op.name = "insert_alias"
     /\ (op.key = op.key2 \/ op.key \notin DOMAIN old_key_map))
        => ret = None /\ StoreUnchanged

\* C9 witness: a present key was offered as its own alias.
C9_Witness ==
    /\ op.name = "insert_alias"
    /\ op.key = op.key2
    /\ op.key \in DOMAIN old_key_map
    /\ Cardinality(DOMAIN old_key_map) >= 2

\* C10: insert(k, v) increases len() by exactly 1 and makes get(k) return v,
\* whether or not k was present; every other key keeps its value, and the old
\* value of a present k stays in the array, reachable through the other keys
\* that aliased it.
C10_InsertAppends ==
    op.name = "insert" =>
        /\ Len(values) = Len(old_values) + 1
        /\ NewGet(op.key) = Some(op.value)
        /\ \A k \in Keys \ {op.key} : NewGet(k) = OldGet(k)
        /\ \A i \in 1..Len(old_values) : values[i] = old_values[i]
        /\ op.key \in DOMAIN old_key_map =>
               \A a \in SlotKeys(old_key_map, op.key) \ {op.key} :
                   NewGet(a) = Some(old_values[OldIndex(op.key) + 1])

\* C10 witness: insert was called with a key that was present and had an
\* alias, with a value other than the one it had.
C10_Witness ==
    /\ op.name = "insert"
    /\ op.key \in DOMAIN old_key_map
    /\ Cardinality(SlotKeys(old_key_map, op.key)) >= 2
    /\ OldGet(op.key) # Some(op.value)

---------------------------------------------------------------------------
(* C11..C18 *)

\* C11: from any reachable state clear() yields a store indistinguishable
\* from new(): len() is 0, is_empty() is true, get, contains_key and aliases
\* report absence for every key, and the store compares equal to a freshly
\* constructed one (so every later call behaves as on a fresh store).
C11_ClearIsNew ==
    op.name = "clear" =>
        /\ key_map = new.key_map
        /\ values = new.values
        /\ len(values) = 0
        /\ is_empty(values)
        /\ \A k \in Keys :
               /\ NewGet(k) = None
               /\ ~contains_key(key_map, k)
               /\ \A order \in KeyOrders : aliases(key_map, k, order) = None
        /\ eq(key_map, values, new.key_map, new.values) = Some(TRUE)
        /\ eq(new.key_map, new.values, key_map, values) = Some(TRUE)

\* C11 witness: clear was called on a full store that had several keys and a
\* slot without keys.
C11_Witness ==
    /\ op.name = "clear"
    /\ Len(old_values) = MaxLen
    /\ Cardinality(DOMAIN old_key_map) >= 2
    /\ Cardinality(LiveSlots(old_key_map)) < Len(old_values)

\* The calls recorded in op when map2 alone was called.
OtherCalls ==
    {"map2.insert", "map2.insert_alias", "map2.remove_alias", "map2.remove",
     "map2.clear", "map2.get_mut"}

\* C12: for every reachable store s (with or without slots that have no key)
\* the clone c of s satisfies c == s and s == c, and a later call on c, a
\* write through get_mut included, leaves every lookup result and len() of s
\* unchanged.
C12_CloneEqualAndIndependent ==
    /\ op.name = "clone" =>
           /\ other_key_map = key_map
           /\ other_values = values
           /\ eq(other_key_map, other_values, key_map, values) = Some(TRUE)
           /\ eq(key_map, values, other_key_map, other_values) = Some(TRUE)
    /\ (op.name \in {"map1 == map2", "map2 == map1"} /\ other_op.name = "clone")
           => ret = Some(TRUE)
    /\ op.name \in OtherCalls =>
           /\ \A k \in Keys : NewGet(k) = OldGet(k)
           /\ len(values) = len(old_values)
           /\ StoreUnchanged

\* C12 witness: the clone of a store holding a slot without keys was written
\* through get_mut, changing a value the original still holds.
C12_Witness ==
    /\ op.name = "map2.get_mut"
    /\ ret # None
    /\ diverged
    /\ Cardinality(LiveSlots(key_map)) < Len(values)
    /\ get(other_key_map, other_values, op.key) # NewGet(op.key)

\* The elements of a Vec.
Elems(v) == {v[i] : i \in DOMAIN v}

\* C13: for every present key k, aliases(k) is exactly the set of keys k'
\* with are_aliases(k, k'): it contains k, holds no key twice, all its
\* members get the same value, and aliases(k') is the same set for each
\* member k'.
C13_AliasesIsAliasClass ==
    /\ \A k \in DOMAIN key_map, order \in KeyOrders :
           LET r == aliases(key_map, k, order)
           IN  /\ r # None
               /\ Elems(r[2]) = {a \in Keys : are_aliases(key_map, k, a)}
               /\ k \in Elems(r[2])
               /\ Len(r[2]) = Cardinality(Elems(r[2]))
               /\ \A a \in Elems(r[2]) :
                      /\ NewGet(a) = NewGet(k)
                      /\ aliases(key_map, a, order) # None
                      /\ Elems(aliases(key_map, a, order)[2]) = Elems(r[2])
    /\ (op.name = "aliases" /\ op.key \in DOMAIN key_map) =>
           /\ ret # None
           /\ Elems(ret[2]) = {a \in Keys : are_aliases(key_map, op.key, a)}
           /\ Len(ret[2]) = Cardinality(Elems(ret[2]))

\* C13 witness: aliases returned two keys of a store that holds a third key
\* on another slot.
C13_Witness ==
    /\ op.name = "aliases"
    /\ ret # None
    /\ Len(ret[2]) = 2
    /\ Cardinality(DOMAIN key_map) = 3

\* C14: when insert_alias(existing_key, new_key) succeeds and new_key was
\* present on another slot, new_key is repointed to existing_key's slot,
\* len() is unchanged and no value is removed, even when new_key was the only
\* key of its previous slot; the other keys of that slot still resolve to its
\* value.
C14_InsertAliasRepointsWithoutCleanup ==
    (/\ op.name = "insert_alias"
     /\ ret # None
     /\ op.key2 \in DOMAIN old_key_map
     /\ OldIndex(op.key2) # OldIndex(op.key))
        => /\ key_map[op.key2] = OldIndex(op.key)
           /\ len(values) = len(old_values)
           /\ values = old_values
           /\ \A a \in SlotKeys(old_key_map, op.key2) \ {op.key2} :
                  /\ key_map[a] = OldIndex(a)
                  /\ NewGet(a) # None
                  /\ NewGet(a) = OldGet(a)

\* C14 witness: the repointed key was the only key of its previous slot,
\* which now has none.
C14_Witness ==
    /\ op.name = "insert_alias"
    /\ ret # None
    /\ op.key2 \in DOMAIN old_key_map
    /\ OldIndex(op.key2) # OldIndex(op.key)
    /\ SlotKeys(old_key_map, op.key2) = {op.key2}
    /\ OldIndex(op.key2) \notin LiveSlots(key_map)

\* C15: aliases share one stored copy: replacing the value obtained through
\* get_mut(k) changes get(k') for exactly the aliases k' of k (k included)
\* and for no other key, and changes neither the key set nor len().
C15_GetMutWritesSharedCopy ==
    (op.name = "get_mut" /\ op.key \in DOMAIN old_key_map) =>
        /\ ret # None
        /\ ret = OldGet(op.key)
        /\ \A a \in Keys :
               IF are_aliases(old_key_map, op.key, a)
               THEN NewGet(a) = Some(op.value)
               ELSE NewGet(a) = OldGet(a)
        /\ OldGet(op.key) # Some(op.value) =>
               {a \in Keys : NewGet(a) # OldGet(a)} = SlotKeys(old_key_map, op.key)
        /\ key_map = old_key_map
        /\ len(values) = len(old_values)

\* C15 witness: a value with two keys was replaced while a third key held an
\* equal value on another slot, which kept it.
C15_Witness ==
    /\ op.name = "get_mut"
    /\ ret # None
    /\ ret # Some(op.value)
    /\ Cardinality(SlotKeys(old_key_map, op.key)) = 2
    /\ \E a \in DOMAIN old_key_map :
           /\ OldIndex(a) # OldIndex(op.key)
           /\ OldGet(a) = OldGet(op.key)
           /\ NewGet(a) = OldGet(a)

\* The alias groups of the index table km: the sets of keys sharing a slot.
AliasGroups(km) == {SlotKeys(km, k) : k \in DOMAIN km}

\* C16: if insert is only called with an absent key and insert_alias only
\* with an absent new_key, then after any sequence of insert, insert_alias,
\* remove_alias, remove and clear every slot in [0, len()) has at least one
\* key, and len() equals the number of alias groups.
C16_NoOrphansWithFreshKeys ==
    /\ LiveSlots(key_map) = 0..(len(values) - 1)
    /\ len(values) = Cardinality(AliasGroups(key_map))

\* C16 witness: remove_alias took the only key of the first of three slots,
\* and the last slot's value and key moved into its place.
C16_Witness ==
    /\ op.name = "remove_alias"
    /\ ret = Some(0)
    /\ Len(old_values) = 3
    /\ OldIndex(op.key) = 0
    /\ Len(values) = 2
    /\ \E k \in DOMAIN key_map : OldIndex(k) = 2 /\ key_map[k] = 0

\* The slots of a store that have no key.
Orphans(km, vals) == {i \in 0..(Len(vals) - 1) : i \notin LiveSlots(km)}

\* Where a slot of the old Vec is after a removal that freed slot freed: the
\* last slot has moved to the freed index, the others have stayed.
Moved(j, freed) == IF j = Len(old_values) - 1 THEN freed ELSE j

\* C17: a slot that has lost all its keys is never reclaimed and never gets
\* a key again by insert, insert_alias, remove_alias or remove: len() minus
\* the number of slots with a key never decreases until clear(), and a
\* compaction moves such a slot at most to the freed index, with its value
\* and still without keys.
C17_OrphanSlotsStay ==
    /\ op.name \notin {"clear", "new"} =>
           len(values) - Cardinality(LiveSlots(key_map))
               >= len(old_values) - Cardinality(LiveSlots(old_key_map))
    /\ op.name \in {"insert", "insert_alias"} =>
           \A j \in Orphans(old_key_map, old_values) :
               /\ j \in Orphans(key_map, values)
               /\ values[j + 1] = old_values[j + 1]
    /\ op.name \in {"remove_alias", "remove"} =>
           IF Len(values) = Len(old_values)
           THEN /\ Orphans(key_map, values) = Orphans(old_key_map, old_values)
                /\ values = old_values
           ELSE LET freed == OldIndex(op.key)
                IN  /\ Orphans(key_map, values)
                           = {Moved(j, freed) : j \in Orphans(old_key_map, old_values)}
                    /\ \A j \in Orphans(old_key_map, old_values) :
                           values[Moved(j, freed) + 1] = old_values[j + 1]

\* C17 witness: a removal freed a slot before the last one while the last
\* slot had no key; that slot is now at the freed index, still without keys.
C17_Witness ==
    /\ op.name \in {"remove_alias", "remove"}
    /\ Len(values) = Len(old_values) - 1
    /\ Len(old_values) - 1 \in Orphans(old_key_map, old_values)
    /\ OldIndex(op.key) < Len(old_values) - 1
    /\ OldIndex(op.key) \in Orphans(key_map, values)
    /\ DOMAIN key_map # {}

\* C18: for a present key k that has no other alias, remove_alias(k) and
\* remove(k) leave the same store (same value for every key, same alias
\* grouping, same len()); remove_alias returns Some(0) and remove returns the
\* removed value.
C18_RemoveAliasOfLoneKeyIsRemove ==
    (/\ op.name = "map1.remove, map2.remove_alias"
     /\ op.key \in DOMAIN old_key_map
     /\ SlotKeys(old_key_map, op.key) = {op.key})
        => /\ ret = <<OldGet(op.key), Some(0)>>
           /\ OldGet(op.key) # None
           /\ \A k \in Keys : get(other_key_map, other_values, k) = NewGet(k)
           /\ \A a \in Keys, b \in Keys :
                  are_aliases(other_key_map, a, b) = are_aliases(key_map, a, b)
           /\ len(other_values) = len(values)
           /\ other_key_map = key_map
           /\ other_values = values

\* C18 witness: the lone key's slot was not the last one and the last slot
\* had two keys, so both code paths had to move a value and rewrite keys.
C18_Witness ==
    /\ op.name = "map1.remove, map2.remove_alias"
    /\ op.key \in DOMAIN old_key_map
    /\ SlotKeys(old_key_map, op.key) = {op.key}
    /\ OldIndex(op.key) < Len(old_values) - 1
    /\ Cardinality({k \in DOMAIN old_key_map : OldIndex(k) = Len(old_values) - 1}) = 2

=============================================================================
